---- MODULE Spec2Model ----
(***************************************************************************)
(* Instance tracking and tube extraction of the S-SPHAR video generation   *)
(* script: InstanceDB / Instance / InstanceFrameData / Tube of             *)
(* helper_classes.py, get_equal_white_pixel_count of helper_functions.py   *)
(* and the tracking loop of generate_video.py.                             *)
(***************************************************************************)
EXTENDS Integers, Sequences, FiniteSets, TLC

(***************************************************************************)
(* Bounds of the model.                                                    *)
(***************************************************************************)
\* frame width and height in cells (img.shape of the first image)
Width == 3
Height == 1
\* largest number of frames of a recording, len(folder_dict['_img'])
MaxFrames == 3
\* largest number of contours that pass the area filter in one frame
MaxDet == 2
\* largest number of such contours in all frames of a recording
MaxDetRun == 4
\* largest configured MIN_TUBE_LENGTH
MaxMinTubeLength == 3
\* store-level runs: ids passed by a caller, calls of get_unused_instance_id,
\* frame numbers passed by a caller, frames appended in all
MaxId == 2
MaxCnt == 2
MaxFrameNr == 1
MaxAppends == 3
\* candidate-pool runs: largest number of instances live after frame 0
MaxPool == 3
\* tube-level runs: frames of one instance, largest corner offset and side
MaxTubeFrames == 2
MaxCoord == 1
MaxSide == 2

(***************************************************************************)
(* Values of the program.                                                  *)
(***************************************************************************)
\* Python's None
None == "None"
\* float("inf"), the start value of Tube.min_x, min_y, min_frame: larger than
\* every coordinate and frame number
INF == 999999
\* the mask value drawContours paints with, (255, 255, 255)
WHITE == 255

\* name2color.keys() in iteration order: the labels of layer.json
LabelOrder == <<"Car", "kicking", "walking">>
NO_ACTION_LABELS == {"Car", "Default", "UI", "Ground", "Water", "Lighting"}
ActionLabels == {LabelOrder[i] : i \in DOMAIN LabelOrder} \ NO_ACTION_LABELS

Pixels == 0 .. (Width * Height - 1)
PX(p) == p % Width
PY(p) == p \div Width

SetMin(S) == CHOOSE m \in S : \A n \in S : m <= n
SetMax(S) == CHOOSE m \in S : \A n \in S : m >= n
Elems(s) == {s[i] : i \in DOMAIN s}

\* `n` copies of `x`, as a list
Repeat(x, n) == [k \in 1 .. n |-> x]

(***************************************************************************)
(* helper_functions.py                                                     *)
(***************************************************************************)
\* np.bitwise_and of a boolean (img1 == img2) and a uint8 (img1): True is 1,
\* so the result is the lowest bit of img1 where the two are equal, else 0
bitwise_and_bool(b, v) == IF b THEN v % 2 ELSE 0

\* np.count_nonzero(img1 == img2): the cells that are equal, white or not
get_equal_white_pixel_count_equal(img1, img2) ==
  Cardinality({p \in DOMAIN img1 : img1[p] = img2[p]})

get_equal_white_pixel_count(img1, img2) ==
  Cardinality({p \in DOMAIN img1 : bitwise_and_bool(img1[p] = img2[p], img1[p]) # 0})

(***************************************************************************)
(* helper_classes.py: InstanceFrameData, Instance                          *)
(***************************************************************************)
\* segm_rbox is stored by the program and read by nothing; it is left out
InstanceFrameData(frame_nr, segm_mask, segm_bbox) ==
  [frame_nr |-> frame_nr, segm_mask |-> segm_mask, segm_bbox |-> segm_bbox]

Instance(instance_id, instance_of, first_FrameData) ==
  [instance_id |-> instance_id, instance_of |-> instance_of,
   frames |-> <<first_FrameData>>]

\* the frames of `instance` with number frame_nr, in list order
frames_with_nr(instance, frame_nr) ==
  SelectSeq(instance.frames, LAMBDA frame : frame.frame_nr = frame_nr)

\* Instance.get_frame_with_nr raises when no frame has the number
get_frame_with_nr_raises(instance, frame_nr) ==
  frames_with_nr(instance, frame_nr) = <<>>

get_frame_with_nr(instance, frame_nr) ==
  frames_with_nr(instance, frame_nr)[1]

(***************************************************************************)
(* helper_classes.py: InstanceDB.  `self` is the record                    *)
(* [_instances, _instanceid_cnt]; a method is an operator that gives the   *)
(* object after the call, and what the call returns or raises.             *)
(***************************************************************************)
InstanceDB == [_instances |-> <<>>, _instanceid_cnt |-> 0]

append_frame_to_instance_eager(self, instance_id, new_frame_data, instance_of) ==
  LET found == \E i \in DOMAIN self._instances :
                 self._instances[i].instance_id = instance_id
      appended == [i \in DOMAIN self._instances |->
                     IF self._instances[i].instance_id = instance_id
                     THEN [self._instances[i] EXCEPT !.frames = Append(@, new_frame_data)]
                     ELSE self._instances[i]]
  IN  IF found
      THEN [self |-> [self EXCEPT !._instances = appended], raised |-> None]
      ELSE [self |-> [self EXCEPT !._instances =
                        Append(@, Instance(instance_id, instance_of, new_frame_data))],
            raised |-> IF instance_of # None THEN None ELSE "ValueError"]

\* lines 24-38 with the label of a found instance set to the one passed
append_frame_to_instance_relabel(self, instance_id, new_frame_data, instance_of) ==
  LET found == \E i \in DOMAIN self._instances :
                 self._instances[i].instance_id = instance_id
      appended == [i \in DOMAIN self._instances |->
                     IF self._instances[i].instance_id = instance_id
                     THEN [self._instances[i] EXCEPT
                             !.frames = Append(@, new_frame_data),
                             !.instance_of = IF instance_of # None THEN instance_of ELSE @]
                     ELSE self._instances[i]]
  IN  IF found
      THEN [self |-> [self EXCEPT !._instances = appended], raised |-> None]
      ELSE IF instance_of # None
      THEN [self |-> [self EXCEPT !._instances =
                        Append(@, Instance(instance_id, instance_of, new_frame_data))],
            raised |-> None]
      ELSE [self |-> self, raised |-> "ValueError"]

append_frame_to_instance(self, instance_id, new_frame_data, instance_of) ==
  LET found == \E i \in DOMAIN self._instances :
                 self._instances[i].instance_id = instance_id
      appended == [i \in DOMAIN self._instances |->
                     IF self._instances[i].instance_id = instance_id
                     THEN [self._instances[i] EXCEPT !.frames = Append(@, new_frame_data)]
                     ELSE self._instances[i]]
  IN  IF found
      THEN [self |-> [self EXCEPT !._instances = appended], raised |-> None]
      ELSE IF instance_of # None
      THEN [self |-> [self EXCEPT !._instances =
                        Append(@, Instance(instance_id, instance_of, new_frame_data))],
            raised |-> None]
      ELSE [self |-> self, raised |-> "ValueError"]

RECURSIVE ids_in_frame_from(_, _, _)
ids_in_frame_from(instances, frame_nr, i) ==
  IF i > Len(instances) THEN <<>>
  ELSE Repeat(instances[i].instance_id, Len(frames_with_nr(instances[i], frame_nr)))
       \o ids_in_frame_from(instances, frame_nr, i + 1)

\* one entry per frame of an instance that has the number
get_instance_ids_in_frame(self, frame_nr) ==
  ids_in_frame_from(self._instances, frame_nr, 1)

RECURSIVE instances_in_frame_from(_, _, _)
instances_in_frame_from(instances, frame_nr, i) ==
  IF i > Len(instances) THEN <<>>
  ELSE Repeat(instances[i], Len(frames_with_nr(instances[i], frame_nr)))
       \o instances_in_frame_from(instances, frame_nr, i + 1)

get_instances_in_frame(self, frame_nr) ==
  instances_in_frame_from(self._instances, frame_nr, 1)

\* lines 56-63 without the test of the frame number: every live instance of
\* the label
get_instances_of_type_in_frame_anyframe(self, instance_of, frame_nr) ==
  SelectSeq(self._instances, LAMBDA instance : instance.instance_of = instance_of)

\* lines 56-63 without the test instance.instance_of == instance_of
get_instances_of_type_in_frame_any(self, instance_of, frame_nr) ==
  instances_in_frame_from(self._instances, frame_nr, 1)

get_instances_of_type_in_frame(self, instance_of, frame_nr) ==
  instances_in_frame_from(
    SelectSeq(self._instances, LAMBDA instance : instance.instance_of = instance_of),
    frame_nr, 1)

get_unused_instance_id_reuse(self) ==
  [self |-> self, ret |-> Len(self._instances) + 1]

get_unused_instance_id(self) ==
  [self |-> [self EXCEPT !._instanceid_cnt = @ + 1],
   ret |-> self._instanceid_cnt + 1]

clean_last_frame(self, frame_nr) ==
  LET keep(instance) == instance.frames[Len(instance.frames)].frame_nr = frame_nr
  IN  [self |-> [self EXCEPT !._instances = SelectSeq(@, keep)],
       ret |-> SelectSeq(self._instances, LAMBDA instance : ~keep(instance))]

clean_previous(self, frame_nr) ==
  LET keep_ids == Elems(get_instance_ids_in_frame(self, frame_nr - 1))
  IN  [self |-> [self EXCEPT !._instances =
                   SelectSeq(@, LAMBDA instance : instance.instance_id \in keep_ids)],
       ret |-> SelectSeq(self._instances,
                         LAMBDA instance : instance.instance_id \notin keep_ids)]

clean(self, frame_nr) ==
  LET keep_ids == Elems(get_instance_ids_in_frame(self, frame_nr))
  IN  [self |-> [self EXCEPT !._instances =
                   SelectSeq(@, LAMBDA instance : instance.instance_id \in keep_ids)],
       ret |-> SelectSeq(self._instances,
                         LAMBDA instance : instance.instance_id \notin keep_ids)]

(***************************************************************************)
(* helper_classes.py: Tube                                                 *)
(***************************************************************************)
\* the class attributes with min_frame = 0 like max_frame
TubeAttrs_zero ==
  [min_x |-> INF, min_y |-> INF, max_x |-> 0, max_y |-> 0,
   min_frame |-> 0, max_frame |-> 0]

\* the class attributes a new Tube starts from
TubeAttrs ==
  [min_x |-> INF, min_y |-> INF, max_x |-> 0, max_y |-> 0,
   min_frame |-> INF, max_frame |-> 0]

scan_point_swapped(t, point) ==
  [t EXCEPT !.min_x = IF point[1] < @ THEN point[1] ELSE @,
            !.min_y = IF point[2] < @ THEN point[2] ELSE @,
            !.max_x = IF point[2] > @ THEN point[2] ELSE @,
            !.max_y = IF point[2] > @ THEN point[2] ELSE @]

\* the body of `for point in frame.segm_bbox`
scan_point(t, point) ==
  [t EXCEPT !.min_x = IF point[1] < @ THEN point[1] ELSE @,
            !.min_y = IF point[2] < @ THEN point[2] ELSE @,
            !.max_x = IF point[1] > @ THEN point[1] ELSE @,
            !.max_y = IF point[2] > @ THEN point[2] ELSE @]

RECURSIVE scan_points(_, _, _)
scan_points(t, segm_bbox, k) ==
  IF k > Len(segm_bbox) THEN t
  ELSE scan_points(scan_point(t, segm_bbox[k]), segm_bbox, k + 1)

\* the body of `for frame in instance.frames`
scan_frame(t, frame) ==
  scan_points(
    [t EXCEPT !.min_frame = IF frame.frame_nr < @ THEN frame.frame_nr ELSE @,
              !.max_frame = IF frame.frame_nr > @ THEN frame.frame_nr ELSE @],
    frame.segm_bbox, 1)

RECURSIVE scan_frames(_, _, _)
scan_frames(t, frames, k) ==
  IF k > Len(frames) THEN t
  ELSE scan_frames(scan_frame(t, frames[k]), frames, k + 1)

create_from_instance(instance) ==
  LET t == scan_frames(TubeAttrs, instance.frames, 1)
  IN  [label |-> instance.instance_of, tube_id |-> instance.instance_id,
       min_x |-> t.min_x, min_y |-> t.min_y, max_x |-> t.max_x, max_y |-> t.max_y,
       min_frame |-> t.min_frame, max_frame |-> t.max_frame]

\* Tube.__init__
Tube(instance) == create_from_instance(instance)

\* Tube(instance) with the frames taken off the instance as they are read
Tube_call_drain(instance) ==
  [ret |-> Tube(instance), instance |-> [instance EXCEPT !.frames = <<>>]]

\* the call Tube(instance): the object made and the instance after the call.
\* create_from_instance reads instance.frames, instance_of and instance_id
\* and assigns to attributes of self only
Tube_call(instance) ==
  [ret |-> Tube(instance), instance |-> instance]

\* [Tube(i) for i in deletedInstances]
Tubes(deletedInstances) ==
  [k \in 1 .. Len(deletedInstances) |-> Tube(deletedInstances[k])]

(***************************************************************************)
(* generate_video.py: one contour of the label's mask                      *)
(***************************************************************************)
\* cv2.drawContours(np.zeros_like(bwmask), [c], 0, (255, 255, 255), -1):
\* the cells of contour c are white, the others 0
inst_segm_mask(c) == [p \in Pixels |-> IF p \in c THEN WHITE ELSE 0]

\* x, y, w, h = cv2.boundingRect(c)
boundingRect(c) ==
  LET xs == {PX(p) : p \in c}
      ys == {PY(p) : p \in c}
  IN  [x |-> SetMin(xs), y |-> SetMin(ys),
       w |-> SetMax(xs) - SetMin(xs) + 1, h |-> SetMax(ys) - SetMin(ys) + 1]

\* np.array([[x, y], [x, y+h], [x+w, y+h], [x+w, y]])
segm_bbox_of(r) ==
  << <<r.x, r.y>>, <<r.x, r.y + r.h>>, <<r.x + r.w, r.y + r.h>>, <<r.x + r.w, r.y>> >>

inst_segm_bbox(c) == segm_bbox_of(boundingRect(c))

(***************************************************************************)
(* generate_video.py: the id of a detection                                *)
(***************************************************************************)
\* x[1] of the key function: the score of an (id, score) pair
key(x) == x[2]

\* sorted(IOUs, key=lambda x: x[1])[::-1]: pairs of equal score come out in
\* the reverse of the order they have in IOUs
sorted_reverse_last(IOUs) ==
  [k \in 1 .. Len(IOUs) |->
     IOUs[CHOOSE i \in DOMAIN IOUs :
            Cardinality({j \in DOMAIN IOUs :
                           \/ key(IOUs[j]) > key(IOUs[i])
                           \/ key(IOUs[j]) = key(IOUs[i]) /\ j > i}) + 1 = k]]

\* sorted(IOUs, key=lambda x: x[1], reverse=True): stable, so pairs of equal
\* score keep the order they have in IOUs
RECURSIVE sorted_reverse(_)
sorted_reverse(IOUs) ==
  IF IOUs = <<>> THEN <<>>
  ELSE LET front == sorted_reverse(SubSeq(IOUs, 1, Len(IOUs) - 1))
           x == IOUs[Len(IOUs)]
           k == Cardinality({i \in DOMAIN front : key(front[i]) >= key(x)})
       IN  SubSeq(front, 1, k) \o <<x>> \o SubSeq(front, k + 1, Len(front))

\* the (id, score) pairs of the instances of the label in the previous frame
IOUs_of(instancesInPrevFrame, frameNr, mask) ==
  [i \in 1 .. Len(instancesInPrevFrame) |->
     << instancesInPrevFrame[i].instance_id,
        get_equal_white_pixel_count(
          get_frame_with_nr(instancesInPrevFrame[i], frameNr - 1).segm_mask, mask) >>]

\* lines 199-220 without the test `best_previd not in curInstancesInFrame`
choose_instanceid_unchecked(self, label, frameNr, mask) ==
  LET instancesInPrevFrame == get_instances_of_type_in_frame(self, label, frameNr - 1)
      best == sorted_reverse(IOUs_of(instancesInPrevFrame, frameNr, mask))[1]
      fresh == get_unused_instance_id(self)
  IN  IF Len(instancesInPrevFrame) > 0
      THEN IF best[2] > 0
           THEN [self |-> self, instanceid |-> best[1], best |-> best]
           ELSE [self |-> fresh.self, instanceid |-> fresh.ret, best |-> best]
      ELSE [self |-> fresh.self, instanceid |-> fresh.ret, best |-> <<0, 0>>]

\* lines 199-220 taking the best candidate also when its score is 0
choose_instanceid_zero(self, label, frameNr, mask) ==
  LET instancesInPrevFrame == get_instances_of_type_in_frame(self, label, frameNr - 1)
      best == sorted_reverse(IOUs_of(instancesInPrevFrame, frameNr, mask))[1]
      curInstancesInFrame == get_instance_ids_in_frame(self, frameNr)
      fresh == get_unused_instance_id(self)
  IN  IF Len(instancesInPrevFrame) > 0
      THEN IF best[1] \notin Elems(curInstancesInFrame)
           THEN [self |-> self, instanceid |-> best[1], best |-> best]
           ELSE [self |-> fresh.self, instanceid |-> fresh.ret, best |-> best]
      ELSE [self |-> fresh.self, instanceid |-> fresh.ret, best |-> <<0, 0>>]

\* lines 199-220 going on to the next candidate when the best one is taken
choose_instanceid_next(self, label, frameNr, mask) ==
  LET instancesInPrevFrame == get_instances_of_type_in_frame(self, label, frameNr - 1)
      srt == sorted_reverse(IOUs_of(instancesInPrevFrame, frameNr, mask))
      curInstancesInFrame == get_instance_ids_in_frame(self, frameNr)
      free == {k \in DOMAIN srt :
                 srt[k][2] > 0 /\ srt[k][1] \notin Elems(curInstancesInFrame)}
      fresh == get_unused_instance_id(self)
  IN  IF Len(instancesInPrevFrame) > 0
      THEN IF free # {}
           THEN [self |-> self, instanceid |-> srt[SetMin(free)][1], best |-> srt[1]]
           ELSE [self |-> fresh.self, instanceid |-> fresh.ret, best |-> srt[1]]
      ELSE [self |-> fresh.self, instanceid |-> fresh.ret, best |-> <<0, 0>>]

\* lines 199-220: the id under which the detection is committed, the store
\* after a call of get_unused_instance_id, and (best_previd, best_iou)
choose_instanceid(self, label, frameNr, mask) ==
  LET instancesInPrevFrame == get_instances_of_type_in_frame(self, label, frameNr - 1)
      best == sorted_reverse(IOUs_of(instancesInPrevFrame, frameNr, mask))[1]
      curInstancesInFrame == get_instance_ids_in_frame(self, frameNr)
      fresh == get_unused_instance_id(self)
  IN  IF Len(instancesInPrevFrame) > 0
      THEN IF best[2] > 0 /\ best[1] \notin Elems(curInstancesInFrame)
           THEN [self |-> self, instanceid |-> best[1], best |-> best]
           ELSE [self |-> fresh.self, instanceid |-> fresh.ret, best |-> best]
      ELSE [self |-> fresh.self, instanceid |-> fresh.ret, best |-> <<0, 0>>]

\* lines 268-269 with > in place of >=
filter_tubes_strict(tubes, min_tube_length) ==
  SelectSeq(tubes, LAMBDA tube : tube.max_frame - tube.min_frame > min_tube_length)

\* tubeslist = [tube for tube in tubeslist
\*              if tube.max_frame - tube.min_frame >= MIN_TUBE_LENGTH]
filter_tubes(tubes, min_tube_length) ==
  SelectSeq(tubes, LAMBDA tube : tube.max_frame - tube.min_frame >= min_tube_length)

\* lines 252-254 and 257-259 without the removal from the store
sweep_keep(self, tubes, save, frame_nr) ==
  LET r == clean(self, frame_nr)
  IN  [self |-> self, deletedInstances |-> r.ret,
       tubeslist |-> IF save THEN tubes \o Tubes(r.ret) ELSE tubes]

\* lines 252-254 and 257-259 with the clean call under `if SAVE_VIDEO_TUBES`
sweep_unsaved(self, tubes, save, frame_nr) ==
  LET r == clean(self, frame_nr)
  IN  IF save
      THEN [self |-> r.self, deletedInstances |-> r.ret, tubeslist |-> tubes \o Tubes(r.ret)]
      ELSE [self |-> self, deletedInstances |-> <<>>, tubeslist |-> tubes]

\* deletedInstances = IDB.clean(frameNr)
\* if SAVE_VIDEO_TUBES: tubeslist.extend([Tube(i) for i in deletedInstances])
sweep(self, tubes, save, frame_nr) ==
  LET r == clean(self, frame_nr)
  IN  [self |-> r.self, deletedInstances |-> r.ret,
       tubeslist |-> IF save THEN tubes \o Tubes(r.ret) ELSE tubes]

\* what a failed get_frame_with_nr raises: lines 102-103 build the message
\* of the IndexError with str + int (frame_nr is a number), which raises
\* TypeError before the IndexError is made
LookupError == "TypeError"

\* the candidates of the label whose frame of frame_nr - 1 line 204 would not
\* find
scoring_raises(self, label, frame_nr) ==
  \E i \in DOMAIN get_instances_of_type_in_frame(self, label, frame_nr - 1) :
    get_frame_with_nr_raises(
      get_instances_of_type_in_frame(self, label, frame_nr - 1)[i], frame_nr - 1)

\* the instances of the current frame whose frame the annotation loop
\* (lines 228-230) would not find
annotation_raises(self, frame_nr) ==
  \E i \in DOMAIN get_instances_in_frame(self, frame_nr) :
    get_frame_with_nr_raises(get_instances_in_frame(self, frame_nr)[i], frame_nr)

(***************************************************************************)
(* State.                                                                  *)
(***************************************************************************)
VARIABLES
  IDB,               \* the InstanceDB object of line 147
  frameNr,           \* line 148
  tubeslist,         \* line 149
  SAVE_VIDEO_TUBES,  \* line 68, cleared by line 124
  MIN_TUBE_LENGTH,   \* line 75, as configured for the run
  n_img,             \* len(folder_dict['_img'])
  pc,                \* the place of the script
  label_i,           \* the position of `for label in name2color.keys()`
  cnts_found,        \* the contours of the current frame iterated so far
  raised,            \* the exception that ended the run or the last call
  commits,           \* history: every detection committed, in order
  deleted,           \* history: every instance a clean call returned
  built,             \* history: every Tube built, in order
  returned,          \* history: the ids get_unused_instance_id returned
  last,              \* history: the last call, its arguments and result
  before             \* history: the store before the last call

vars == <<IDB, frameNr, tubeslist, SAVE_VIDEO_TUBES, MIN_TUBE_LENGTH, n_img, pc,
          label_i, cnts_found, raised, commits, deleted, built, returned, last,
          before>>

Call(op, args, ret) == [op |-> op, args |-> args, ret |-> ret]

\* the deleted instances with the frame number of the clean call
Evicted(deletedInstances, frame_nr) ==
  [k \in 1 .. Len(deletedInstances) |-> [inst |-> deletedInstances[k], at |-> frame_nr]]

(***************************************************************************)
(* The run of generate_video.py                                            *)
(***************************************************************************)
Init ==
  /\ IDB = InstanceDB
  /\ frameNr = 0
  /\ tubeslist = <<>>
  /\ SAVE_VIDEO_TUBES = TRUE
  /\ MIN_TUBE_LENGTH \in 0 .. MaxMinTubeLength
  /\ n_img \in 1 .. MaxFrames
  /\ pc = "check"
  /\ label_i = 1
  /\ cnts_found = {}
  /\ raised = None
  /\ commits = <<>>
  /\ deleted = <<>>
  /\ built = <<>>
  /\ returned = <<>>
  /\ last = Call("init", <<>>, None)
  /\ before = InstanceDB

\* lines 119-124
LengthCheck ==
  /\ pc = "check"
  /\ SAVE_VIDEO_TUBES' = IF SAVE_VIDEO_TUBES /\ n_img < MIN_TUBE_LENGTH
                         THEN FALSE ELSE SAVE_VIDEO_TUBES
  /\ pc' = "loop"
  /\ last' = Call("check", <<>>, None)
  /\ before' = IDB
  /\ UNCHANGED <<IDB, frameNr, tubeslist, MIN_TUBE_LENGTH, n_img, label_i,
                 cnts_found, raised, commits, deleted, built, returned>>

\* line 172: the labels of name2color that are tracked
is_tracked(label) == label \notin NO_ACTION_LABELS

\* lines 171-223 for the next contour the two loops reach: contour c of
\* cnts_sorted of the label at position li, which is the current label or,
\* when the labels in between are passed over or have no contour left, a
\* later one.  The contours of a frame are outer contours of regions of one
\* colour each, so they share no cell; their order within a label (by
\* cv2.contourArea) is the detection source's.
Track(li, c) ==
  /\ pc = "loop"
  /\ frameNr < n_img
  /\ li >= label_i
  /\ is_tracked(LabelOrder[li])
  /\ Cardinality(cnts_found) < MaxDet
  /\ Len(commits) < MaxDetRun
  /\ \A d \in cnts_found : d \cap c = {}
  /\ LET label == LabelOrder[li]
         mask == inst_segm_mask(c)
         ch == choose_instanceid(IDB, label, frameNr, mask)
         ap == append_frame_to_instance(
                 ch.self, ch.instanceid,
                 InstanceFrameData(frameNr, mask, inst_segm_bbox(c)), label)
         fresh == ch.self._instanceid_cnt # IDB._instanceid_cnt
     IN  IF scoring_raises(IDB, label, frameNr)
         THEN /\ pc' = "error"
              /\ raised' = LookupError
              /\ last' = Call("score", <<label, mask>>, None)
              /\ UNCHANGED <<IDB, returned, commits>>
         ELSE /\ IDB' = ap.self
              /\ raised' = ap.raised
              /\ pc' = IF ap.raised # None THEN "error" ELSE pc
              /\ returned' = IF fresh THEN Append(returned, ch.instanceid) ELSE returned
              /\ commits' = Append(commits,
                               [frame |-> frameNr, label |-> label, mask |-> mask,
                                id |-> ch.instanceid, fresh |-> fresh, best |-> ch.best])
              /\ last' = Call("track", <<label, mask>>, ch.instanceid)
  /\ label_i' = li
  /\ cnts_found' = cnts_found \cup {c}
  /\ before' = IDB
  /\ UNCHANGED <<frameNr, tubeslist, SAVE_VIDEO_TUBES, MIN_TUBE_LENGTH, n_img,
                 deleted, built>>

\* lines 226-255, once no contour is left in the frame: the annotation of
\* the frame, then the sweep and frameNr += 1
EndFrame ==
  /\ pc = "loop"
  /\ frameNr < n_img
  /\ IF annotation_raises(IDB, frameNr)
     THEN /\ pc' = "error"
          /\ raised' = LookupError
          /\ last' = Call("annotate", <<frameNr>>, None)
          /\ UNCHANGED <<IDB, frameNr, tubeslist, label_i, cnts_found, deleted, built>>
     ELSE LET sw == sweep(IDB, tubeslist, SAVE_VIDEO_TUBES, frameNr)
          IN  /\ IDB' = sw.self
              /\ tubeslist' = sw.tubeslist
              /\ deleted' = deleted \o Evicted(sw.deletedInstances, frameNr)
              /\ built' = IF SAVE_VIDEO_TUBES
                          THEN built \o Tubes(sw.deletedInstances) ELSE built
              /\ last' = Call("clean", <<frameNr>>, sw.deletedInstances)
              /\ frameNr' = frameNr + 1
              /\ label_i' = 1
              /\ cnts_found' = {}
              /\ UNCHANGED <<pc, raised>>
  /\ before' = IDB
  /\ UNCHANGED <<SAVE_VIDEO_TUBES, MIN_TUBE_LENGTH, n_img, commits, returned>>

\* lines 257-259: the sweep after the last frame
FinalClean ==
  /\ pc = "loop"
  /\ frameNr = n_img
  /\ LET sw == sweep(IDB, tubeslist, SAVE_VIDEO_TUBES, frameNr)
     IN  /\ IDB' = sw.self
         /\ tubeslist' = sw.tubeslist
         /\ deleted' = deleted \o Evicted(sw.deletedInstances, frameNr)
         /\ built' = IF SAVE_VIDEO_TUBES
                     THEN built \o Tubes(sw.deletedInstances) ELSE built
         /\ last' = Call("clean", <<frameNr>>, sw.deletedInstances)
  /\ pc' = "tubes"
  /\ before' = IDB
  /\ UNCHANGED <<frameNr, SAVE_VIDEO_TUBES, MIN_TUBE_LENGTH, n_img, label_i,
                 cnts_found, raised, commits, returned>>

\* lines 266-303: the minimum-duration filter, when tubes are saved
WriteTubes ==
  /\ pc = "tubes"
  /\ tubeslist' = IF SAVE_VIDEO_TUBES
                  THEN filter_tubes(tubeslist, MIN_TUBE_LENGTH) ELSE tubeslist
  /\ pc' = "done"
  /\ last' = Call("tubes", <<>>, None)
  /\ before' = IDB
  /\ UNCHANGED <<IDB, frameNr, SAVE_VIDEO_TUBES, MIN_TUBE_LENGTH, n_img, label_i,
                 cnts_found, raised, commits, deleted, built, returned>>

Next ==
  \/ LengthCheck
  \/ \E li \in DOMAIN LabelOrder, c \in (SUBSET Pixels) \ {{}} : Track(li, c)
  \/ EndFrame
  \/ FinalClean
  \/ WriteTubes

Spec == Init /\ [][Next]_vars

(***************************************************************************)
(* The Instance Store on its own: a caller makes any calls of              *)
(* append_frame_to_instance, get_unused_instance_id and clean, in any      *)
(* order and with any arguments, and goes on after a ValueError.           *)
(***************************************************************************)
InitStore ==
  /\ IDB = InstanceDB
  /\ frameNr = 0
  /\ tubeslist = <<>>
  /\ SAVE_VIDEO_TUBES = TRUE
  /\ MIN_TUBE_LENGTH = 0
  /\ n_img = 1
  /\ pc = "store"
  /\ label_i = 1
  /\ cnts_found = {}
  /\ raised = None
  /\ commits = <<>>
  /\ deleted = <<>>
  /\ built = <<>>
  /\ returned = <<>>
  /\ last = Call("init", <<>>, None)
  /\ before = InstanceDB

\* the frame record a caller passes: frame f of a contour that fills the frame
StoreFrameData(f) ==
  InstanceFrameData(f, inst_segm_mask(Pixels), inst_segm_bbox(Pixels))

StoreAppend(instance_id, f, instance_of) ==
  /\ pc = "store"
  /\ Len(commits) < MaxAppends
  /\ LET ap == append_frame_to_instance(IDB, instance_id, StoreFrameData(f), instance_of)
     IN  /\ IDB' = ap.self
         /\ raised' = ap.raised
         /\ commits' = IF ap.raised = None
                       THEN Append(commits, [frame |-> f, label |-> instance_of,
                                             id |-> instance_id])
                       ELSE commits
         /\ last' = Call("append_frame_to_instance", <<instance_id, f, instance_of>>, None)
  /\ before' = IDB
  /\ UNCHANGED <<frameNr, tubeslist, SAVE_VIDEO_TUBES, MIN_TUBE_LENGTH, n_img, pc,
                 label_i, cnts_found, deleted, built, returned>>

StoreGetUnused ==
  /\ pc = "store"
  /\ IDB._instanceid_cnt < MaxCnt
  /\ LET r == get_unused_instance_id(IDB)
     IN  /\ IDB' = r.self
         /\ returned' = Append(returned, r.ret)
         /\ last' = Call("get_unused_instance_id", <<>>, r.ret)
  /\ raised' = None
  /\ before' = IDB
  /\ UNCHANGED <<frameNr, tubeslist, SAVE_VIDEO_TUBES, MIN_TUBE_LENGTH, n_img, pc,
                 label_i, cnts_found, commits, deleted, built>>

StoreClean(f) ==
  /\ pc = "store"
  /\ LET r == clean(IDB, f)
     IN  /\ IDB' = r.self
         /\ deleted' = deleted \o Evicted(r.ret, f)
         /\ last' = Call("clean", <<f>>, r.ret)
  /\ raised' = None
  /\ before' = IDB
  /\ UNCHANGED <<frameNr, tubeslist, SAVE_VIDEO_TUBES, MIN_TUBE_LENGTH, n_img, pc,
                 label_i, cnts_found, commits, built, returned>>

NextStore ==
  \/ \E instance_id \in 1 .. MaxId, f \in 0 .. MaxFrameNr,
        instance_of \in ActionLabels \cup {None} :
       StoreAppend(instance_id, f, instance_of)
  \/ StoreGetUnused
  \/ \E f \in 0 .. MaxFrameNr : StoreClean(f)

SpecStore == InitStore /\ [][NextStore]_vars

(***************************************************************************)
(* The Tube Builder on its own: one instance with any frame records, as    *)
(* line 222 makes them (frame numbers from 0, boxes from cv2.boundingRect, *)
(* so no coordinate below 0), is swept out of the store and Tubes are      *)
(* built from it.                                                          *)
(***************************************************************************)
InitTube ==
  /\ IDB = InstanceDB
  /\ frameNr = 0
  /\ tubeslist = <<>>
  /\ SAVE_VIDEO_TUBES = TRUE
  /\ MIN_TUBE_LENGTH = 0
  /\ n_img = 1
  /\ pc = "tube"
  /\ label_i = 1
  /\ cnts_found = {}
  /\ raised = None
  /\ commits = <<>>
  /\ deleted = <<>>
  /\ built = <<>>
  /\ returned = <<>>
  /\ last = Call("init", <<>>, None)
  /\ before = InstanceDB

\* the results cv2.boundingRect can give
Rects ==
  [x : 0 .. MaxCoord, y : 0 .. MaxCoord, w : 1 .. MaxSide, h : 1 .. MaxSide]

\* the first frame record of the instance
TubeCreate(instance_id, instance_of, f, r) ==
  /\ pc = "tube"
  /\ IDB._instances = <<>>
  /\ deleted = <<>>
  /\ IDB' = append_frame_to_instance(
              IDB, instance_id,
              InstanceFrameData(f, inst_segm_mask(Pixels), segm_bbox_of(r)),
              instance_of).self
  /\ last' = Call("append_frame_to_instance", <<instance_id, f, instance_of>>, None)
  /\ before' = IDB
  /\ UNCHANGED <<frameNr, tubeslist, SAVE_VIDEO_TUBES, MIN_TUBE_LENGTH, n_img, pc,
                 label_i, cnts_found, raised, commits, deleted, built, returned>>

\* one more frame record of the instance
TubeAppend(f, r) ==
  /\ pc = "tube"
  /\ IDB._instances # <<>>
  /\ Len(IDB._instances[1].frames) < MaxTubeFrames
  /\ IDB' = append_frame_to_instance(
              IDB, IDB._instances[1].instance_id,
              InstanceFrameData(f, inst_segm_mask(Pixels), segm_bbox_of(r)),
              IDB._instances[1].instance_of).self
  /\ last' = Call("append_frame_to_instance",
                  <<IDB._instances[1].instance_id, f, IDB._instances[1].instance_of>>,
                  None)
  /\ before' = IDB
  /\ UNCHANGED <<frameNr, tubeslist, SAVE_VIDEO_TUBES, MIN_TUBE_LENGTH, n_img, pc,
                 label_i, cnts_found, raised, commits, deleted, built, returned>>

\* lines 252-254 for any frame number
TubeSweep(f) ==
  /\ pc = "tube"
  /\ IDB._instances # <<>>
  /\ LET sw == sweep(IDB, tubeslist, SAVE_VIDEO_TUBES, f)
     IN  /\ IDB' = sw.self
         /\ tubeslist' = sw.tubeslist
         /\ deleted' = deleted \o Evicted(sw.deletedInstances, f)
         /\ built' = built \o Tubes(sw.deletedInstances)
         /\ last' = Call("clean", <<f>>, sw.deletedInstances)
  /\ before' = IDB
  /\ UNCHANGED <<frameNr, SAVE_VIDEO_TUBES, MIN_TUBE_LENGTH, n_img, pc, label_i,
                 cnts_found, raised, commits, returned>>

\* Tube(i) once more, for the instance swept out
TubeBuild ==
  /\ pc = "tube"
  /\ deleted # <<>>
  /\ Len(built) < 2
  /\ LET r == Tube_call(deleted[1].inst)
     IN  /\ built' = Append(built, r.ret)
         /\ deleted' = [deleted EXCEPT ![1].inst = r.instance]
  /\ last' = Call("Tube", <<>>, None)
  /\ before' = IDB
  /\ UNCHANGED <<IDB, frameNr, tubeslist, SAVE_VIDEO_TUBES, MIN_TUBE_LENGTH, n_img,
                 pc, label_i, cnts_found, raised, commits, returned>>

NextTube ==
  \/ \E instance_id \in 1 .. MaxId, instance_of \in ActionLabels,
        f \in 0 .. MaxFrameNr, r \in Rects :
       TubeCreate(instance_id, instance_of, f, r)
  \/ \E f \in 0 .. MaxFrameNr, r \in Rects : TubeAppend(f, r)
  \/ \E f \in 0 .. MaxFrameNr + 1 : TubeSweep(f)
  \/ TubeBuild

SpecTube == InitTube /\ [][NextTube]_vars

(***************************************************************************)
(* The candidate pool on its own: frame 1 of a run of two frames, after    *)
(* any frame 0 with up to MaxPool detections.  Frame 0 gave every          *)
(* detection the next id (no instance had a frame -1), in the order of the *)
(* loops, and clean(0) evicted none.                                       *)
(***************************************************************************)
\* the contours of frame 0, in the order the loops reach them
PoolMasks(n) ==
  {cs \in [1 .. n -> (SUBSET Pixels) \ {{}}] :
     \A i, j \in 1 .. n : i # j => cs[i] \cap cs[j] = {}}

\* the store after frame 0 with contours cs of labels ls
PoolStore(cs, ls) ==
  [_instances |->
     [i \in DOMAIN cs |->
        Instance(i, ls[i],
                 InstanceFrameData(0, inst_segm_mask(cs[i]), inst_segm_bbox(cs[i])))],
   _instanceid_cnt |-> Len(cs)]

InitPool ==
  /\ \E n \in 1 .. MaxPool :
       \E cs \in PoolMasks(n), ls \in [1 .. n -> ActionLabels] :
         /\ IDB = PoolStore(cs, ls)
         /\ before = PoolStore(cs, ls)
         /\ \A i \in 1 .. (n - 1) :
              \A a, b \in DOMAIN LabelOrder :
                (LabelOrder[a] = ls[i] /\ LabelOrder[b] = ls[i + 1]) => a <= b
  /\ frameNr = 1
  /\ tubeslist = <<>>
  /\ SAVE_VIDEO_TUBES = TRUE
  /\ MIN_TUBE_LENGTH = 0
  /\ n_img = 2
  /\ pc = "loop"
  /\ label_i = 1
  /\ cnts_found = {}
  /\ raised = None
  /\ commits = <<>>
  /\ deleted = <<>>
  /\ built = <<>>
  /\ returned = <<>>
  /\ last = Call("clean", <<0>>, <<>>)

NextPool ==
  \E li \in DOMAIN LabelOrder, c \in (SUBSET Pixels) \ {{}} : Track(li, c)

SpecPool == InitPool /\ [][NextPool]_vars

(***************************************************************************)
(* Properties.  The notions of the specification are defined here on their *)
(* own, apart from the operators above that follow the code.               *)
(***************************************************************************)
HasFrame(inst, f) == \E k \in DOMAIN inst.frames : inst.frames[k].frame_nr = f
FrameNrs(inst) == {inst.frames[k].frame_nr : k \in DOMAIN inst.frames}
LiveIds(self) == {self._instances[i].instance_id : i \in DOMAIN self._instances}
NoDup(s) == \A i, j \in DOMAIN s : i # j => s[i] # s[j]

\* the number of cells that are foreground in both masks
Overlap(m1, m2) == Cardinality({p \in Pixels : m1[p] # 0 /\ m2[p] # 0})

\* the candidate pool of a detection of label L in frame f: positions in the store
Cands(self, L, f) ==
  {i \in DOMAIN self._instances :
     self._instances[i].instance_of = L /\ HasFrame(self._instances[i], f - 1)}

PrevMask(inst, f) ==
  inst.frames[CHOOSE k \in DOMAIN inst.frames : inst.frames[k].frame_nr = f - 1].segm_mask

ScoreOf(self, i, f, m) == Overlap(PrevMask(self._instances[i], f), m)

MaxScore(self, L, f, m) == SetMax({ScoreOf(self, i, f, m) : i \in Cands(self, L, f)})

\* the maximum-score candidate, the first in store order among equals
Winner(self, L, f, m) ==
  SetMin({i \in Cands(self, L, f) : ScoreOf(self, i, f, m) = MaxScore(self, L, f, m)})

\* C1: at most one claim per frame.  In every reachable state of a run, for
\* every frame f, get_instance_ids_in_frame(f) holds no id twice, and no two
\* detections committed in the same frame (of one label or of two) have the
\* same instance id.
C1_AtMostOneClaimPerFrame ==
  /\ \A f \in 0 .. MaxFrames : NoDup(get_instance_ids_in_frame(IDB, f))
  /\ \A i, j \in DOMAIN commits :
       (i # j /\ commits[i].frame = commits[j].frame) => commits[i].id # commits[j].id

\* two detections of one label in a frame with the same best previous
\* instance, after two detections of different labels in the frame before
C1_Witness ==
  /\ pc = "loop"
  /\ \E i, j \in DOMAIN commits :
       /\ i < j
       /\ commits[i].frame = commits[j].frame
       /\ commits[i].label = commits[j].label
       /\ commits[i].best[1] # 0
       /\ commits[i].best = commits[j].best
       /\ commits[i].best[2] > 0
  /\ \E i, j \in DOMAIN commits :
       /\ commits[i].frame = commits[j].frame
       /\ commits[i].label # commits[j].label

\* C2: eviction correctness.  Every call clean(f), in every state of the
\* store, returns exactly the live instances without a frame record at f, in
\* order, leaves exactly the others live, and afterwards the set of live ids
\* is the set of get_instance_ids_in_frame(f).
C2_EvictionCorrectness ==
  last.op = "clean" =>
    LET f == last.args[1]
    IN  /\ last.ret = SelectSeq(before._instances, LAMBDA inst : ~HasFrame(inst, f))
        /\ IDB._instances = SelectSeq(before._instances, LAMBDA inst : HasFrame(inst, f))
        /\ LiveIds(IDB) = Elems(get_instance_ids_in_frame(IDB, f))
        /\ IDB._instanceid_cnt = before._instanceid_cnt

\* a clean call that evicted one instance and kept another, whose last frame
\* record is not the one at f
C2_Witness ==
  /\ pc = "store"
  /\ last.op = "clean"
  /\ last.ret # <<>>
  /\ \E i \in DOMAIN IDB._instances :
       /\ Len(IDB._instances[i].frames) >= 2
       /\ IDB._instances[i].frames[Len(IDB._instances[i].frames)].frame_nr # last.args[1]

\* C3: identity monotonicity.  Over any sequence of store calls, every id
\* get_unused_instance_id returns is positive and greater than every id it
\* returned before.
C3_IdentityMonotonicity ==
  \A i \in DOMAIN returned :
    /\ returned[i] > 0
    /\ \A j \in DOMAIN returned : j < i => returned[j] < returned[i]

\* a second id is returned after an instance with the first id was evicted
C3_Witness ==
  /\ pc = "store"
  /\ last.op = "get_unused_instance_id"
  /\ Len(returned) >= 2
  /\ IDB._instances = <<>>
  /\ \E d \in DOMAIN deleted : deleted[d].inst.instance_id = returned[1]

\* C4: end-of-stream finalization.  When the run over the frames 0..N-1 has
\* ended, the store holds no instance, every detection committed in the run
\* is a frame record of an instance some clean call returned (also the ones
\* of the last frame), and with tube export on, a Tube was built for each.
C4_EndOfStreamFinalization ==
  pc \in {"tubes", "done"} =>
    /\ IDB._instances = <<>>
    /\ \A k \in DOMAIN commits :
         \E d \in DOMAIN deleted :
           /\ deleted[d].inst.instance_id = commits[k].id
           /\ deleted[d].inst.instance_of = commits[k].label
           /\ \E r \in DOMAIN deleted[d].inst.frames :
                /\ deleted[d].inst.frames[r].frame_nr = commits[k].frame
                /\ deleted[d].inst.frames[r].segm_mask = commits[k].mask
           /\ SAVE_VIDEO_TUBES =>
                \E t \in DOMAIN built : built[t].tube_id = commits[k].id
    /\ \A d \in DOMAIN deleted : \E k \in DOMAIN commits :
         commits[k].id = deleted[d].inst.instance_id

\* a run of several frames ended with tube export on, an instance was evicted
\* before the last frame and another had a detection in the last frame
C4_Witness ==
  /\ pc = "done"
  /\ SAVE_VIDEO_TUBES
  /\ n_img >= 2
  /\ \E d \in DOMAIN deleted : deleted[d].at < n_img
  /\ \E d \in DOMAIN deleted :
       /\ deleted[d].at = n_img
       /\ HasFrame(deleted[d].inst, n_img - 1)
       /\ \E t \in DOMAIN built : built[t].tube_id = deleted[d].inst.instance_id

\* C5: eviction timing.  No clean(f) evicts an instance with a frame record
\* at f; an instance whose last frame record is at f is evicted by clean(f+1)
\* and by no later call, so between two sweeps every live instance has a frame
\* record at the current or the previous frame; the Tube of an evicted
\* instance runs from its first frame to the frame before the eviction.
C5_EvictionTiming ==
  /\ \A d \in DOMAIN deleted :
       /\ ~HasFrame(deleted[d].inst, deleted[d].at)
       /\ SetMax(FrameNrs(deleted[d].inst)) = deleted[d].at - 1
  /\ \A i \in DOMAIN IDB._instances :
       SetMax(FrameNrs(IDB._instances[i])) \in {frameNr - 1, frameNr}
  /\ pc = "loop" /\ last.op = "clean" =>
       \A i \in DOMAIN IDB._instances : HasFrame(IDB._instances[i], frameNr - 1)
  /\ SAVE_VIDEO_TUBES =>
       \A d \in DOMAIN deleted :
         /\ d \in DOMAIN built
         /\ built[d].tube_id = deleted[d].inst.instance_id
         /\ built[d].max_frame = deleted[d].at - 1
         /\ built[d].min_frame = deleted[d].inst.frames[1].frame_nr

\* an instance with frames 0, 1, 2 is evicted by clean(3) with a Tube from 0
\* to 2, and an instance seen in frame 0 only was evicted by clean(1)
C5_Witness ==
  /\ SAVE_VIDEO_TUBES
  /\ \E d \in DOMAIN deleted :
       /\ deleted[d].at = 3
       /\ FrameNrs(deleted[d].inst) = {0, 1, 2}
       /\ built[d].min_frame = 0
       /\ built[d].max_frame = 2
  /\ \E d \in DOMAIN deleted :
       /\ deleted[d].at = 1
       /\ deleted[d].at < n_img
       /\ FrameNrs(deleted[d].inst) = {0}

\* the corner points of all frame records of an instance
Corners(inst) ==
  UNION {Elems(inst.frames[k].segm_bbox) : k \in DOMAIN inst.frames}

\* C6: tube bounds.  A Tube built from an instance with at least one frame
\* record has min_frame and max_frame the least and the greatest frame
\* number, min_x, max_x, min_y, max_y the least and the greatest x and y over
\* all corners of all boxes, and the instance's label and id.
C6_TubeBounds ==
  \A t \in DOMAIN built :
    LET inst == deleted[1].inst
    IN  /\ built[t].min_frame = SetMin(FrameNrs(inst))
        /\ built[t].max_frame = SetMax(FrameNrs(inst))
        /\ built[t].min_x = SetMin({pt[1] : pt \in Corners(inst)})
        /\ built[t].max_x = SetMax({pt[1] : pt \in Corners(inst)})
        /\ built[t].min_y = SetMin({pt[2] : pt \in Corners(inst)})
        /\ built[t].max_y = SetMax({pt[2] : pt \in Corners(inst)})
        /\ built[t].label = inst.instance_of
        /\ built[t].tube_id = inst.instance_id

\* a Tube of an instance with two frame records of different frames and
\* boxes, wider than high
C6_Witness ==
  /\ pc = "tube"
  /\ built # <<>>
  /\ Len(deleted[1].inst.frames) = 2
  /\ deleted[1].inst.frames[1].frame_nr > deleted[1].inst.frames[2].frame_nr
  /\ deleted[1].inst.frames[1].segm_bbox # deleted[1].inst.frames[2].segm_bbox
  /\ built[1].max_x > built[1].max_y
  /\ built[1].min_x < built[1].min_y

\* C7: duration filter.  At the end of the run the exported tube list holds
\* exactly the Tubes built with max_frame - min_frame >= MIN_TUBE_LENGTH, in
\* the order they were built.
C7_DurationFilter ==
  pc = "done" =>
    /\ \A t \in DOMAIN built :
         (built[t] \in Elems(tubeslist))
           <=> (built[t].max_frame - built[t].min_frame >= MIN_TUBE_LENGTH)
    /\ \A t \in DOMAIN tubeslist : tubeslist[t] \in Elems(built)
    /\ NoDup(tubeslist)

\* a run with a Tube exported whose frame difference is MIN_TUBE_LENGTH, and
\* a shorter Tube that is not exported
C7_Witness ==
  /\ pc = "done"
  /\ SAVE_VIDEO_TUBES
  /\ MIN_TUBE_LENGTH >= 1
  /\ \E t \in DOMAIN tubeslist :
       tubeslist[t].max_frame - tubeslist[t].min_frame = MIN_TUBE_LENGTH
  /\ \E t \in DOMAIN built : built[t] \notin Elems(tubeslist)

\* the ids of the instances with a frame record at f
ClaimedIds(self, f) ==
  {self._instances[i].instance_id :
     i \in {k \in DOMAIN self._instances : HasFrame(self._instances[k], f)}}

\* the last frame record of an instance is the detection of mask m in frame f
EndsWith(inst, f, m) ==
  /\ inst.frames[Len(inst.frames)].frame_nr = f
  /\ inst.frames[Len(inst.frames)].segm_mask = m

\* C8: continuation rule.  A detection of label L in frame f is committed
\* under an id that is live already iff its candidate pool (the live
\* instances of label L with a frame record at f-1) is not empty, the
\* maximum score is above 0 and the id of the maximum-score candidate is not
\* yet among the ids of frame f.  Then the id is that candidate's and only
\* that instance changes, by one frame record more; else the id is the next
\* one of get_unused_instance_id and one instance is added.
C8_ContinuationRule ==
  last.op = "track" =>
    LET L == last.args[1]
        m == last.args[2]
        id == last.ret
        old == before._instances
        new == IDB._instances
        w == Winner(before, L, frameNr, m)
        cont == /\ Cands(before, L, frameNr) # {}
                /\ MaxScore(before, L, frameNr, m) > 0
                /\ old[w].instance_id \notin ClaimedIds(before, frameNr)
    IN  /\ (id \in LiveIds(before)) <=> cont
        /\ IF cont
           THEN /\ id = old[w].instance_id
                /\ Len(new) = Len(old)
                /\ \A i \in DOMAIN old : i # w => new[i] = old[i]
                /\ new[w].instance_id = id
                /\ new[w].instance_of = L
                /\ Len(new[w].frames) = Len(old[w].frames) + 1
                /\ SubSeq(new[w].frames, 1, Len(old[w].frames)) = old[w].frames
                /\ EndsWith(new[w], frameNr, m)
                /\ IDB._instanceid_cnt = before._instanceid_cnt
           ELSE /\ id = before._instanceid_cnt + 1
                /\ IDB._instanceid_cnt = id
                /\ returned[Len(returned)] = id
                /\ Len(new) = Len(old) + 1
                /\ SubSeq(new, 1, Len(old)) = old
                /\ new[Len(new)].instance_id = id
                /\ new[Len(new)].instance_of = L
                /\ Len(new[Len(new)].frames) = 1
                /\ EndsWith(new[Len(new)], frameNr, m)

\* a detection continued an instance of the frame before, after another one
\* of the frame that overlapped no candidate had got a new id
C8_Witness ==
  /\ last.op = "track"
  /\ last.ret \in LiveIds(before)
  /\ commits[Len(commits)].best[2] > 0
  /\ \E k \in 1 .. (Len(commits) - 1) :
       /\ commits[k].frame = frameNr
       /\ commits[k].fresh
       /\ commits[k].best[1] # 0
       /\ commits[k].best[2] = 0

\* the detections before the last one, in its frame and of its label, whose
\* maximum-score candidate is the instance at position w of the store
SameWinner(w) ==
  {e \in 1 .. (Len(commits) - 1) :
     /\ commits[e].frame = frameNr
     /\ commits[e].label = last.args[1]
     /\ Winner(before, last.args[1], frameNr, commits[e].mask) = w}

\* C9 as stated: greedy first claim.  When two detections of one label in a
\* frame both score highest against the same previous-frame instance p, the
\* earlier one continues p and the later one gets a freshly allocated id,
\* never p.
C9_GreedyFirstClaim_AsStated ==
  (last.op = "track" /\ Cands(before, last.args[1], frameNr) # {}) =>
    LET w == Winner(before, last.args[1], frameNr, last.args[2])
        p == before._instances[w].instance_id
    IN  \A e \in SameWinner(w) :
          /\ commits[e].id = p
          /\ last.ret # p
          /\ last.ret = before._instanceid_cnt + 1

\* C9 (amended): among the detections of one label in a frame whose
\* maximum-score candidate is the same previous-frame instance p, the first
\* one whose score against p is above 0 continues p and every later one gets
\* a freshly allocated id, never p, also when its score is higher or it
\* overlaps another candidate nobody claimed; one whose score is 0 gets a
\* fresh id and leaves p to the later ones.
C9_GreedyFirstClaim ==
  (last.op = "track" /\ Cands(before, last.args[1], frameNr) # {}) =>
    LET L == last.args[1]
        w == Winner(before, L, frameNr, last.args[2])
        p == before._instances[w].instance_id
        E == {e \in SameWinner(w) : ScoreOf(before, w, frameNr, commits[e].mask) > 0}
    IN  /\ \A e \in SameWinner(w) \ E : commits[e].id # p /\ commits[e].fresh
        /\ E # {} =>
             /\ commits[SetMin(E)].id = p
             /\ \A e \in E : e # SetMin(E) => commits[e].id # p /\ commits[e].fresh
             /\ last.ret # p
             /\ last.ret = before._instanceid_cnt + 1
             /\ last.ret \notin LiveIds(before)
        /\ (E = {} /\ ScoreOf(before, w, frameNr, last.args[2]) > 0) => last.ret = p

\* the later of two detections with the same best instance has the higher
\* score against it and gets a new id
C9_Witness ==
  /\ last.op = "track"
  /\ \E e \in 1 .. (Len(commits) - 1) :
       /\ commits[e].frame = frameNr
       /\ commits[e].label = last.args[1]
       /\ commits[e].best[1] = commits[Len(commits)].best[1]
       /\ commits[e].id = commits[e].best[1]
       /\ commits[e].best[2] > 0
       /\ commits[Len(commits)].best[2] > commits[e].best[2]
       /\ commits[Len(commits)].fresh

\* the later detection overlaps a second candidate that nobody claimed and
\* gets a new id all the same
C9_WitnessOtherCandidate ==
  /\ last.op = "track"
  /\ commits[Len(commits)].fresh
  /\ commits[Len(commits)].best[2] > 0
  /\ \E i \in Cands(before, last.args[1], frameNr) :
       /\ before._instances[i].instance_id # commits[Len(commits)].best[1]
       /\ before._instances[i].instance_id \notin ClaimedIds(before, frameNr)
       /\ ScoreOf(before, i, frameNr, last.args[2]) > 0

\* C10: invalid append.  append_frame_to_instance with an id that is not live
\* and no label raises ValueError and leaves the store as it was: no instance
\* more, no frame record more, the same id counter.
C10_InvalidAppend ==
  (/\ last.op = "append_frame_to_instance"
   /\ last.args[1] \notin LiveIds(before)
   /\ last.args[3] = None) =>
    /\ raised = "ValueError"
    /\ IDB = before

\* the call failed on a store that holds an instance and has given out an id
C10_Witness ==
  /\ pc = "store"
  /\ raised = "ValueError"
  /\ last.op = "append_frame_to_instance"
  /\ last.args[3] = None
  /\ before._instances # <<>>
  /\ before._instanceid_cnt > 0

\* C11: the effect of append_frame_to_instance.  When an instance of the id
\* is live, the frame record becomes the last of its frames, its label stays
\* what it was whatever label is passed, no instance is added, and the other
\* instances and the id counter are as before.  When none is live and a label
\* is passed, one instance is added, with that id, that label and the frame
\* record as its only frame, and the instances there were are as before.
C11_AppendEffect ==
  last.op = "append_frame_to_instance" =>
    LET id == last.args[1]
        rec == StoreFrameData(last.args[2])
        old == before._instances
        new == IDB._instances
    IN  /\ IDB._instanceid_cnt = before._instanceid_cnt
        /\ id \in LiveIds(before) =>
             /\ raised = None
             /\ Len(new) = Len(old)
             /\ \A i \in DOMAIN old :
                  IF old[i].instance_id = id
                  THEN /\ new[i].frames = Append(old[i].frames, rec)
                       /\ new[i].instance_of = old[i].instance_of
                       /\ new[i].instance_id = id
                  ELSE new[i] = old[i]
        /\ (id \notin LiveIds(before) /\ last.args[3] # None) =>
             /\ raised = None
             /\ Len(new) = Len(old) + 1
             /\ SubSeq(new, 1, Len(old)) = old
             /\ new[Len(new)] =
                  [instance_id |-> id, instance_of |-> last.args[3], frames |-> <<rec>>]

\* a frame was appended to a live instance under another label than its own,
\* next to a second live instance, and an instance was created by a call
C11_Witness ==
  /\ pc = "store"
  /\ last.op = "append_frame_to_instance"
  /\ Len(before._instances) = 2
  /\ \E i \in DOMAIN before._instances :
       /\ before._instances[i].instance_id = last.args[1]
       /\ last.args[3] # None
       /\ before._instances[i].instance_of # last.args[3]
  /\ Len(commits) = 3

\* every instance of the run: the live ones and the ones clean returned
AllInstances == Elems(IDB._instances) \cup {deleted[k].inst : k \in DOMAIN deleted}

\* C12: instance history.  In every reachable state of a run, every instance,
\* live or evicted, has at least one frame record, and the frame numbers of
\* its records grow strictly in list order, so none has two records of one
\* frame.
C12_InstanceHistory ==
  \A inst \in AllInstances :
    /\ Len(inst.frames) >= 1
    /\ \A k \in 1 .. (Len(inst.frames) - 1) :
         inst.frames[k].frame_nr < inst.frames[k + 1].frame_nr
    /\ \A k, l \in DOMAIN inst.frames :
         k # l => inst.frames[k].frame_nr # inst.frames[l].frame_nr

\* an evicted instance with two frame records next to a live one, in a frame
\* where two detections had the same best previous instance
C12_Witness ==
  /\ pc = "loop"
  /\ \E k \in DOMAIN deleted : Len(deleted[k].inst.frames) >= 2
  /\ IDB._instances # <<>>
  /\ \E i, j \in DOMAIN commits :
       /\ i < j
       /\ commits[i].frame = commits[j].frame
       /\ commits[i].label = commits[j].label
       /\ commits[i].best = commits[j].best
       /\ commits[i].best[2] > 0

\* C13: label stability.  The label of an instance is the one it was created
\* with and never changes; every frame record of an instance comes from a
\* detection of the instance's label; no instance has a label of
\* NO_ACTION_LABELS.
C13_LabelStability ==
  /\ \A inst \in AllInstances :
       /\ inst.instance_of \notin NO_ACTION_LABELS
       /\ \A k \in DOMAIN commits :
            commits[k].id = inst.instance_id => commits[k].label = inst.instance_of
       /\ \A n \in DOMAIN inst.frames :
            \E k \in DOMAIN commits :
              /\ commits[k].id = inst.instance_id
              /\ commits[k].frame = inst.frames[n].frame_nr
              /\ commits[k].mask = inst.frames[n].segm_mask
              /\ commits[k].label = inst.instance_of
  /\ \A i \in DOMAIN before._instances :
       \A inst \in AllInstances :
         inst.instance_id = before._instances[i].instance_id =>
           inst.instance_of = before._instances[i].instance_of

\* a detection that lies on the previous mask of a live instance of another
\* label, and on no instance of its own label, got a new id
C13_Witness ==
  /\ last.op = "track"
  /\ commits[Len(commits)].fresh
  /\ Cands(before, last.args[1], frameNr) = {}
  /\ \E i \in DOMAIN before._instances :
       /\ before._instances[i].instance_of # last.args[1]
       /\ HasFrame(before._instances[i], frameNr - 1)
       /\ ~HasFrame(before._instances[i], frameNr)
       /\ ScoreOf(before, i, frameNr, last.args[2]) > 0

\* the id the continuation rule gives a detection of label L and mask m in
\* frame f on store `self`; nothing of it depends on SAVE_VIDEO_TUBES
RuleId(self, L, f, m) ==
  IF /\ Cands(self, L, f) # {}
     /\ MaxScore(self, L, f, m) > 0
     /\ self._instances[Winner(self, L, f, m)].instance_id \notin ClaimedIds(self, f)
  THEN self._instances[Winner(self, L, f, m)].instance_id
  ELSE self._instanceid_cnt + 1

\* C14: insufficient length.  When the number of frames is below
\* MIN_TUBE_LENGTH the run does not abort, SAVE_VIDEO_TUBES is off for the
\* whole run, no Tube is built and the tube list stays empty, and tracking
\* goes as with export on: every id is the one of the continuation rule, and
\* every clean evicts what it evicts with export on, at the same frame.
C14_InsufficientLength ==
  (pc # "check" /\ n_img < MIN_TUBE_LENGTH) =>
    /\ SAVE_VIDEO_TUBES = FALSE
    /\ built = <<>>
    /\ tubeslist = <<>>
    /\ pc # "error"
    /\ raised = None
    /\ last.op = "track" =>
         last.ret = RuleId(before, last.args[1], frameNr, last.args[2])
    /\ last.op = "clean" =>
         LET on == sweep(before, <<>>, TRUE, last.args[1])
         IN  /\ IDB = on.self
             /\ last.ret = on.deletedInstances
             /\ last.ret = SelectSeq(before._instances,
                                     LAMBDA inst : ~HasFrame(inst, last.args[1]))
             /\ \A k \in DOMAIN deleted :
                  /\ ~HasFrame(deleted[k].inst, deleted[k].at)
                  /\ deleted[k].at > 0 => HasFrame(deleted[k].inst, deleted[k].at - 1)

\* a run of two frames below MIN_TUBE_LENGTH came to its end; an instance was
\* continued in it, and instances were evicted at frame 1 and at the end
C14_Witness ==
  /\ pc = "done"
  /\ n_img = 2
  /\ n_img < MIN_TUBE_LENGTH
  /\ \E k \in DOMAIN commits : ~commits[k].fresh
  /\ \E k \in DOMAIN deleted : deleted[k].at = 1
  /\ \E k \in DOMAIN deleted : deleted[k].at = 2 /\ Len(deleted[k].inst.frames) = 2

C16_TieBreak ==
  (last.op = "track" /\ Cands(before, last.args[1], frameNr) # {}) =>
    LET L == last.args[1]
        m == last.args[2]
        top == {i \in Cands(before, L, frameNr) :
                  \A j \in Cands(before, L, frameNr) :
                    ScoreOf(before, j, frameNr, m) <= ScoreOf(before, i, frameNr, m)}
        first == CHOOSE i \in top : \A j \in top : i <= j
        pool == get_instances_of_type_in_frame(before, L, frameNr - 1)
    IN  /\ commits[Len(commits)].best[1] = before._instances[first].instance_id
        /\ commits[Len(commits)].best[2] = ScoreOf(before, first, frameNr, m)
        /\ pool = SelectSeq(before._instances,
                            LAMBDA inst : inst.instance_of = L /\ HasFrame(inst, frameNr - 1))

\* a pool of three of which the second and the third have the maximum score,
\* above 0
C16_Witness ==
  /\ last.op = "track"
  /\ Cardinality(Cands(before, last.args[1], frameNr)) = 3
  /\ LET C == Cands(before, last.args[1], frameNr)
         top == {i \in C : ScoreOf(before, i, frameNr, last.args[2])
                              = MaxScore(before, last.args[1], frameNr, last.args[2])}
     IN  /\ Cardinality(top) = 2
         /\ SetMin(C) \notin top
         /\ MaxScore(before, last.args[1], frameNr, last.args[2]) > 0
         /\ last.ret = before._instances[SetMin(top)].instance_id

\* C17: intersection score.  For two masks of the frame's dimensions, the
\* score get_equal_white_pixel_count gives is the number of cells that are
\* nonzero in both, not divided by the union or an area; it is 0 exactly when
\* no cell is foreground in both, and the same for the two orders of the
\* arguments.  The score of the best candidate is this number.
C17_IntersectionScore ==
  last.op = "track" =>
    LET m == last.args[2]
    IN  /\ \A i \in DOMAIN before._instances :
             HasFrame(before._instances[i], frameNr - 1) =>
               LET a == PrevMask(before._instances[i], frameNr)
                   both == {p \in Pixels : a[p] # 0 /\ m[p] # 0}
               IN  /\ get_equal_white_pixel_count(a, m) = Cardinality(both)
                   /\ get_equal_white_pixel_count(m, a) = Cardinality(both)
                   /\ get_equal_white_pixel_count(a, m) = 0 <=> both = {}
        /\ Cands(before, last.args[1], frameNr) # {} =>
             commits[Len(commits)].best[2] =
               MaxScore(before, last.args[1], frameNr, m)

\* a detection of two cells on a previous mask of three: score 2, the union
\* is 3 cells; and one that shares no cell with the previous mask of another
\* instance of the label
C17_Witness ==
  /\ last.op = "track"
  /\ \E k \in DOMAIN commits :
       /\ commits[k].best[2] = 2
       /\ \E i \in DOMAIN IDB._instances :
            /\ IDB._instances[i].instance_id = commits[k].best[1]
            /\ Cardinality({p \in Pixels : PrevMask(IDB._instances[i], frameNr)[p] # 0}) = 3
            /\ Cardinality({p \in Pixels : commits[k].mask[p] # 0}) = 2

\* the detections committed in frame f
CommitsOf(f) == {k \in DOMAIN commits : commits[k].frame = f}

\* C18: empty candidate pool.  A detection of label L in frame f with no live
\* instance of label L that has a frame record at f-1 is committed under a
\* fresh id of get_unused_instance_id, as a new instance.  So every detection
\* of frame 0 makes a new instance, and after frame 0 there are as many live
\* instances as frame 0 had detections.
C18_EmptyPool ==
  /\ (last.op = "track" /\ Cands(before, last.args[1], frameNr) = {}) =>
       /\ last.ret = before._instanceid_cnt + 1
       /\ last.ret \notin LiveIds(before)
       /\ returned # <<>>
       /\ returned[Len(returned)] = last.ret
       /\ Len(returned) = IDB._instanceid_cnt
       /\ Len(IDB._instances) = Len(before._instances) + 1
       /\ IDB._instances[Len(IDB._instances)].instance_id = last.ret
  /\ \A k \in CommitsOf(0) : commits[k].fresh /\ commits[k].best = <<0, 0>>
  /\ frameNr = 0 => Len(IDB._instances) = Cardinality(CommitsOf(0))
  /\ (last.op = "clean" /\ last.args[1] = 0) =>
       /\ last.ret = <<>>
       /\ Len(IDB._instances) = Cardinality(CommitsOf(0))

\* in frame 1, after two detections in frame 0 and the sweep, a detection of
\* a label that no live instance has got a new id
C18_Witness ==
  /\ last.op = "track"
  /\ frameNr = 1
  /\ Cardinality(CommitsOf(0)) = 2
  /\ Len(before._instances) = 2
  /\ Cands(before, last.args[1], frameNr) = {}
  /\ last.ret = 3

\* the frame numbers of the instance are f0, f0+1, ..., f0+k in list order
Consecutive(inst) ==
  \A k \in 1 .. (Len(inst.frames) - 1) :
    inst.frames[k + 1].frame_nr = inst.frames[k].frame_nr + 1

\* C19: contiguous lifetime.  In every reachable state of a run the frame
\* numbers of every instance, live or evicted, are consecutive with no gap;
\* so for every Tube built max_frame - min_frame + 1 is the number of frame
\* records of its instance, and every tube left by the duration filter comes
\* from an instance detected in at least MIN_TUBE_LENGTH + 1 consecutive
\* frames.
C19_ContiguousLifetime ==
  /\ \A inst \in AllInstances : Consecutive(inst)
  /\ \A k \in DOMAIN built :
       \E d \in DOMAIN deleted :
         /\ deleted[d].inst.instance_id = built[k].tube_id
         /\ built[k].max_frame - built[k].min_frame + 1 = Len(deleted[d].inst.frames)
         /\ built[k].min_frame = deleted[d].inst.frames[1].frame_nr
  /\ pc = "done" =>
       \A k \in DOMAIN tubeslist :
         \E d \in DOMAIN deleted :
           /\ deleted[d].inst.instance_id = tubeslist[k].tube_id
           /\ Consecutive(deleted[d].inst)
           /\ Len(deleted[d].inst.frames) >= MIN_TUBE_LENGTH + 1

\* the run is over; a tube of an instance that began after frame 0 passed the
\* filter with exactly the minimum length, and a shorter one was dropped
C19_Witness ==
  /\ pc = "done"
  /\ MIN_TUBE_LENGTH >= 1
  /\ \E k \in DOMAIN tubeslist :
       /\ tubeslist[k].min_frame >= 1
       /\ tubeslist[k].max_frame - tubeslist[k].min_frame = MIN_TUBE_LENGTH
  /\ Len(built) > Len(tubeslist)

\* the ids of the instances clean has returned
EvictedIds == {deleted[d].inst.instance_id : d \in DOMAIN deleted}

\* C20: no resurrection, unique identities.  In a run no two instances
\* created have the same id and the store never holds two instances of one
\* id; once clean has evicted an instance its id is never live again and no
\* detection is committed under it; so clean returns each instance once and
\* the Tubes built have pairwise different ids.
C20_NoResurrection ==
  /\ \A i, j \in DOMAIN IDB._instances :
       i # j => IDB._instances[i].instance_id # IDB._instances[j].instance_id
  /\ \A i, j \in DOMAIN commits :
       (i # j /\ commits[i].fresh /\ commits[j].fresh) => commits[i].id # commits[j].id
  /\ \A i, j \in DOMAIN deleted :
       i # j => deleted[i].inst.instance_id # deleted[j].inst.instance_id
  /\ EvictedIds \cap LiveIds(IDB) = {}
  /\ \A d \in DOMAIN deleted :
       \A k \in DOMAIN commits :
         commits[k].id = deleted[d].inst.instance_id =>
           /\ commits[k].frame < deleted[d].at
           /\ HasFrame(deleted[d].inst, commits[k].frame)
  /\ \A i, j \in DOMAIN built : i # j => built[i].tube_id # built[j].tube_id
  /\ \A i, j \in DOMAIN tubeslist : i # j => tubeslist[i].tube_id # tubeslist[j].tube_id

\* a detection of the label of an evicted instance, on the cells that
\* instance had last, got an id that is new, while another instance is live
C20_Witness ==
  /\ last.op = "track"
  /\ commits[Len(commits)].fresh
  /\ last.ret \notin EvictedIds
  /\ before._instances # <<>>
  /\ \E d \in DOMAIN deleted :
       /\ deleted[d].at < frameNr
       /\ deleted[d].inst.instance_of = last.args[1]
       /\ Overlap(deleted[d].inst.frames[Len(deleted[d].inst.frames)].segm_mask,
                  last.args[2]) > 0
       /\ Len(built) >= 1

\* C21: fatal errors are unreachable.  In every state of a run, whatever the
\* detections: every instance the tracker would score as a candidate has a
\* frame record of frame f-1, every instance the annotation of frame f looks
\* up has one of frame f, and every append carried a label; so the run is
\* never ended by the missing-frame lookup or by the invalid append.
C21_NoFatalError ==
  /\ pc # "error"
  /\ raised = None
  /\ pc = "loop" =>
       /\ \A li \in DOMAIN LabelOrder :
            \A inst \in Elems(get_instances_of_type_in_frame(
                                IDB, LabelOrder[li], frameNr - 1)) :
              HasFrame(inst, frameNr - 1)
       /\ \A inst \in Elems(get_instances_in_frame(IDB, frameNr)) :
            HasFrame(inst, frameNr)
  /\ \A k \in DOMAIN commits : commits[k].label \in ActionLabels
  /\ last.op \notin {"score", "annotate"}

\* the run came to its end; in a frame after the first a detection had
\* candidates to score after another of its label had made a new instance,
\* and frames with live instances were annotated
C21_Witness ==
  /\ pc = "done"
  /\ raised = None
  /\ \E i, j \in DOMAIN commits :
       /\ i < j
       /\ commits[i].frame >= 1
       /\ commits[i].frame = commits[j].frame
       /\ commits[i].label = commits[j].label
       /\ commits[i].fresh
       /\ commits[j].best[1] # 0
       /\ ~commits[j].fresh

====
